---- MODULE Spec2Model ----
(***************************************************************************)
(* Model of the job/state coordinator of liveusb/gui.py: one Release with  *)
(* its ReleaseDownload (and ReleaseDownloadThread), its ReleaseWriter (and *)
(* ReleaseWriterThread), its message lists and its derived status.         *)
(*                                                                         *)
(* Python strings that the code inspects by prefix (paths) are sequences   *)
(* of one-character strings; messages are tagged values, so that str() is  *)
(* a real conversion.  Slots running on the GUI thread are atomic actions; *)
(* the code running on a worker thread is split at every write of a field  *)
(* the GUI thread also writes.                                             *)
(***************************************************************************)
EXTENDS Integers, Sequences, FiniteSets, TLC

\* ------------------------------------------------------------ bounds
\* Largest byte count reported by the fetch primitive (also the declared size).
MaxAmount == 2
\* How many times ReleaseDownload.run may connect the thread's signals; as many
\* slot invocations may wait for the GUI thread.
MaxConn == 2
\* Largest progress value the write primitive reports.
MaxWriteProgress == 1

\* ------------------------------------------------------------ values
\* The idle sentinel of _current and _maximum (-1.0 in the source).
Sentinel == -1

\* 'file://' as characters.
FileScheme == <<"f", "i", "l", "e", ":", "/", "/">>

\* The file the fetch primitive returns for this release ("/f").
FetchedIso == <<"/", "f">>

\* What the file dialog may hand to Release.path: '', '/l', 'file:///l'.
PathInputs == { <<>>, <<"/", "l">>, FileScheme \o <<"/", "l">> }

\* sys.platform.startswith('win')
IsWin == FALSE

\* A message as Python sees it: a str, or another object (an errno).
StrVal(s) == [t |-> "str", v |-> s]
IntVal(s) == [t |-> "int", v |-> s]

\* e.args[0] of a LiveUSBError raised by the fetch primitive.
FetchReasons == { StrVal("disk full") }

\* e.args[0] of an exception raised by the write primitive.
WriteReasons == { StrVal("disk full"), IntVal("28") }

DestructiveWarning == StrVal("destructive install")
RestoreInfo == StrVal("restore hint")

WriterStatuses == { "", "Writing", "Finished!" }

\* ------------------------------------------------------------ helpers
Max(a, b) == IF a < b THEN b ELSE a

RECURSIVE Count(_, _)
Count(x, s) == IF s = <<>> THEN 0
               ELSE (IF Head(s) = x THEN 1 ELSE 0) + Count(x, Tail(s))

\* str.startswith
StartsWith(s, p) == Len(s) >= Len(p) /\ SubSeq(s, 1, Len(p)) = p

\* value.replace(p, '', 1) for a value that starts with p
DropPrefix(s, p) == SubSeq(s, Len(p) + 1, Len(s))

\* str(value)
PyStr(x) == StrVal(x.v)


\* ------------------------------------------------------------ state
VARIABLES
    download,   \* ReleaseDownload: _running, _current, _maximum, _path
    grabber,    \* ReleaseDownloadThread: position, beingCancelled, signal connections
    pending,    \* queued invocations of the thread's signals on the GUI thread
    writer,     \* ReleaseWriter: _running, _current, _status, _finished
    worker,     \* ReleaseWriterThread: position, termination requested
    release,    \* Release: _info, _warning, _error
    iso,        \* the backend's image, as last given to live.set_iso
    emitted,    \* the signals emitted by the last step, in order
    lastOp,     \* history: the handler or thread step taken last
    cancelled,  \* history: cancel() hit a started fetch; no get(), no path picked since
    outcome,    \* history: the latest write(): was the release ready, how did it end
    tracing,    \* whether this behaviour records the emitted signals
    st_in,      \* the tuple handed to the status derivation (SpecStatus)
    st_out,     \* the results of reading the status of st_in
    usbDrives,      \* LiveUSBData._usbDrives: the USBDrive objects, in order
    currentDrive,   \* LiveUSBData._currentDrive
    driveToRestore, \* LiveUSBData._driveToRestore: a USBDrive object, or None
    liveDrive,      \* live.drive: the backend's target drive
    crashed,        \* an exception left a handler and ended the program
    lastPass,       \* history: the drive handler taken last and what it saw
    unapplied,      \* history: the latest device event reported drives that are not the listed ones
    releaseData,    \* LiveUSBData.releaseData: the Release objects, in order
    currentIndex,   \* LiveUSBData._currentIndex
    releases,       \* antergos.releases: the catalog as last stored
    updateThread,   \* DataUpdateThread: not started, finished, or handled
    proxy,          \* ReleaseListProxy: _archFilter, _nameFilter, _frontPage
    view,           \* the rows the proxy accepted when it last filtered
    row_in,         \* the row and filters handed to filterAcceptsRow (SpecFilter)
    row_out         \* the results of filtering row_in

jobVars == <<download, grabber, pending, writer, worker, release, iso, emitted,
             lastOp, cancelled, outcome>>
driveVars == <<usbDrives, currentDrive, driveToRestore, liveDrive, crashed, lastPass,
               unapplied>>
catalogVars == <<releaseData, currentIndex, releases, updateThread, proxy, view>>
filterVars == <<row_in, row_out>>
sessionVars == <<driveVars, catalogVars, filterVars>>
vars == <<download, grabber, pending, writer, worker, release, iso, emitted,
          lastOp, cancelled, outcome, tracing, st_in, st_out, usbDrives,
          currentDrive, driveToRestore, liveDrive, crashed, lastPass, unapplied,
          releaseData, currentIndex, releases, updateThread, proxy, view,
          row_in, row_out>>

\* The signals a step emitted, as recorded in emitted.
Emits(signals) == IF tracing THEN signals ELSE <<>>

\* The step taken, as recorded in lastOp.
Did(op, arg) == IF tracing THEN <<op, arg>> ELSE <<"init", 0>>

Amounts == 1..MaxAmount
WriteProgress == 1..MaxWriteProgress

\* ------------------------------------------------------------ Release.status
\* readyToWrite: len(self.path) != 0
readyToWrite(d) == Len(d.path) # 0

\* A faulty variant of status: the error test placed before the download test.
status_ErrorFirst(finished, dlRunning, ready, wRunning, noError, wStatus) ==
    IF ~finished /\ ~dlRunning /\ ~ready /\ ~wRunning /\ noError THEN "Starting"
    ELSE IF ~noError THEN "Error"
    ELSE IF dlRunning THEN "Downloading"
    ELSE IF ready /\ ~wRunning /\ ~finished THEN "Ready to write"
    ELSE IF wStatus # "" THEN wStatus
    ELSE "Finished"

\* The cascade of Release.status on the six values it reads.
status(finished, dlRunning, ready, wRunning, noError, wStatus) ==
    IF ~finished /\ ~dlRunning /\ ~ready /\ ~wRunning /\ noError THEN "Starting"
    ELSE IF dlRunning THEN "Downloading"
    ELSE IF ~noError THEN "Error"
    ELSE IF ready /\ ~wRunning /\ ~finished THEN "Ready to write"
    ELSE IF wStatus # "" THEN wStatus
    ELSE "Finished"

\* Release.status read on the objects.
Release_status(d, w, r) ==
    status(w.finished, d.running, readyToWrite(d), w.running, Len(r.error) = 0, w.status)

\* ------------------------------------------------------------ ReleaseDownload
\* A handler works on c = [d: the download, iso: live.iso, error: the release's
\* error list, out: the signals emitted so far].

\* ReleaseDownload.path setter
Download_setPath(c, value) ==
    IF c.d.path # value
    THEN [c EXCEPT !.d.path = value, !.iso = value,
                   !.out = Append(@, "download.pathChanged")]
    ELSE c

\* ReleaseDownload.reset
Download_reset(c) ==
    LET a == [c EXCEPT !.d.running = FALSE, !.d.current = Sentinel,
                       !.d.maximum = Sentinel]
        b == Download_setPath(a, <<>>)
    IN  [b EXCEPT !.out = @ \o <<"download.runningChanged", "download.currentChanged",
                                 "download.maximumChanged">>]

\* A faulty variant of update: the comparison left out.
Download_update_Unclamped(c, amount_read) ==
    [c EXCEPT !.d.current = amount_read, !.out = Append(@, "download.currentChanged")]

\* ReleaseDownload.update
Download_update(c, amount_read) ==
    IF c.d.current < amount_read
    THEN [c EXCEPT !.d.current = amount_read,
                   !.out = Append(@, "download.currentChanged")]
    ELSE c

\* A faulty variant of addError: the membership test left out.
Release_addError_NoDedup(c, value) ==
    [c EXCEPT !.error = Append(@, PyStr(value)),
              !.out = Append(@, "release.errorChanged")]

\* Release.addError
Release_addError(c, value) ==
    IF \A i \in 1..Len(c.error) : c.error[i] # value
    THEN [c EXCEPT !.error = Append(@, PyStr(value)),
                   !.out = Append(@, "release.errorChanged")]
    ELSE c

\* A faulty variant of childFinished: the file name is not recorded.
Download_childFinished_NoPath(c, file) ==
    LET a == Download_reset(c)
    IN  [a EXCEPT !.d.running = FALSE, !.out = Append(@, "download.runningChanged")]

\* ReleaseDownload.childFinished
Download_childFinished(c, file) ==
    LET a == Download_reset(c)
        b == Download_setPath(a, file)
    IN  [b EXCEPT !.d.running = FALSE, !.out = Append(@, "download.runningChanged")]

\* A faulty variant of childError: the error is not passed to the release.
Download_childError_Dropped(c, err) == Download_reset(c)

\* ReleaseDownload.childError
Download_childError(c, err) == Release_addError(Download_reset(c), err)

\* The context of a handler that starts now.
Ctx == [d |-> download, iso |-> iso, error |-> release.error, out |-> <<>>]

\* Writing back what a handler did.
Commit(c) ==
    /\ download' = c.d
    /\ iso' = c.iso
    /\ release' = [release EXCEPT !.error = c.error]
    /\ emitted' = Emits(c.out)

\* QThread.start: a thread that is running is left alone.
Thread_start(pc, first) == IF pc = "idle" THEN first ELSE pc


\* ------------------------------------------------------------ GUI thread: download
\* Release._path: the class attribute, which no method assigns.
Release_path == <<>>

\* A faulty variant of run: the test of the release's path left out.
Download_run_Unguarded ==
    /\ grabber.conns < MaxConn
    /\ grabber' = [grabber EXCEPT !.conns = @ + 1, !.pc = Thread_start(@, "begin")]

\* ReleaseDownload.run: connect both signals and start the thread, unless the
\* release has a path.
Download_run ==
    IF Len(download.path) <= 0
    THEN /\ grabber.conns < MaxConn
         /\ grabber' = [grabber EXCEPT !.conns = @ + 1,
                                       !.pc = Thread_start(@, "begin")]
    ELSE UNCHANGED grabber

\* Release.get
Release_get ==
    /\ IF Len(Release_path) <= 0 THEN Download_run ELSE UNCHANGED grabber
    /\ emitted' = Emits(<<>>)
    /\ lastOp' = Did("get", 0)
    /\ cancelled' = FALSE
    /\ UNCHANGED <<download, pending, writer, worker, release, iso, outcome>>

\* ReleaseDownloadThread.cancelDownload
Thread_cancelDownload == grabber' = [grabber EXCEPT !.beingCancelled = TRUE]

\* ReleaseDownload.cancel
Download_cancel ==
    /\ Thread_cancelDownload
    /\ Commit(Download_reset(Ctx))
    /\ lastOp' = Did("cancel", 0)
    /\ cancelled' = (tracing /\ (cancelled \/ grabber.pc # "idle" \/ pending # <<>>))
    /\ UNCHANGED <<pending, writer, worker, outcome>>

\* The queued downloadFinished signal reaches ReleaseDownload.childFinished.
Deliver_childFinished ==
    /\ pending # <<>>
    /\ Head(pending)[1] = "downloadFinished"
    /\ Commit(Download_childFinished(Ctx, Head(pending)[2]))
    /\ pending' = Tail(pending)
    /\ lastOp' = Did("childFinished", 0)
    /\ UNCHANGED <<grabber, writer, worker, cancelled, outcome>>

\* The queued downloadError signal reaches ReleaseDownload.childError.
Deliver_childError ==
    /\ pending # <<>>
    /\ Head(pending)[1] = "downloadError"
    /\ Commit(Download_childError(Ctx, Head(pending)[2]))
    /\ pending' = Tail(pending)
    /\ lastOp' = Did("childError", 0)
    /\ UNCHANGED <<grabber, writer, worker, cancelled, outcome>>

\* The value Release.path's setter keeps of what it is given.
StripScheme(value) ==
    IF IsWin /\ StartsWith(value, FileScheme \o <<"/">>)
    THEN DropPrefix(value, FileScheme \o <<"/">>)
    ELSE IF ~IsWin /\ StartsWith(value, FileScheme)
    THEN DropPrefix(value, FileScheme)
    ELSE value

\* Release.path setter (the size it then sets is not part of this model).
Release_setPath(v) ==
    /\ LET value == StripScheme(v)
       IN  IF Release_path # value
           THEN LET c == Download_setPath(Ctx, value)
                IN  Commit([c EXCEPT !.out = Append(@, "release.pathChanged")])
           ELSE /\ emitted' = Emits(<<>>)
                /\ UNCHANGED <<download, iso, release>>
    /\ lastOp' = Did("setPath", 0)
    /\ cancelled' = (cancelled /\ StripScheme(v) = Release_path)
    /\ UNCHANGED <<grabber, pending, writer, worker, outcome>>

\* ------------------------------------------------------------ download thread
\* As many queued slot invocations as there are connections.
RECURSIVE Copies(_, _)
Copies(n, x) == IF n = 0 THEN <<>> ELSE <<x>> \o Copies(n - 1, x)

\* signal.emit from the download thread
Emit(sig, arg) == pending' = pending \o Copies(grabber.conns, <<sig, arg>>)

\* ReleaseDownloadThread.run, first statement
Thread_begin ==
    /\ grabber.pc = "begin"
    /\ grabber' = [grabber EXCEPT !.beingCancelled = FALSE, !.pc = "fetch"]
    /\ emitted' = Emits(<<>>)
    /\ lastOp' = Did("begin", 0)
    /\ UNCHANGED <<download, pending, writer, worker, release, iso, cancelled, outcome>>

\* ReleaseDownload.start, called by the fetch primitive: self._maximum = size
Download_start1 ==
    /\ grabber.pc = "fetch"
    /\ download' = [download EXCEPT !.maximum = MaxAmount]
    /\ grabber' = [grabber EXCEPT !.pc = "start2"]
    /\ emitted' = Emits(<<>>)
    /\ lastOp' = Did("start1", 0)
    /\ UNCHANGED <<pending, writer, worker, release, iso, cancelled, outcome>>

\* ReleaseDownload.start: self._running = True, and both signals
Download_start2 ==
    /\ grabber.pc = "start2"
    /\ download' = [download EXCEPT !.running = TRUE]
    /\ grabber' = [grabber EXCEPT !.pc = "loop"]
    /\ emitted' = Emits(<<"download.maximumChanged", "download.runningChanged">>)
    /\ lastOp' = Did("start", 0)
    /\ UNCHANGED <<pending, writer, worker, release, iso, cancelled, outcome>>

\* ReleaseDownload.update, called by the fetch primitive
Thread_update(amount) ==
    /\ grabber.pc = "loop"
    /\ Commit(Download_update(Ctx, amount))
    /\ lastOp' = Did("update", 0)
    /\ UNCHANGED <<grabber, pending, writer, worker, cancelled, outcome>>

\* The fetch returned a file name; ReleaseDownload.end: self._current = self._maximum
Download_end1 ==
    /\ grabber.pc \in {"fetch", "loop"}
    /\ download' = [download EXCEPT !.current = download.maximum]
    /\ grabber' = [grabber EXCEPT !.pc = "end2"]
    /\ emitted' = Emits(<<"download.currentChanged">>)
    /\ lastOp' = Did("end1", 0)
    /\ UNCHANGED <<pending, writer, worker, release, iso, cancelled, outcome>>

\* ReleaseDownload.end: self._running = False
Download_end2 ==
    /\ grabber.pc = "end2"
    /\ download' = [download EXCEPT !.running = FALSE]
    /\ grabber' = [grabber EXCEPT !.pc = "emit"]
    /\ emitted' = Emits(<<"download.runningChanged">>)
    /\ lastOp' = Did("end", 0)
    /\ UNCHANGED <<pending, writer, worker, release, iso, cancelled, outcome>>

\* self.downloadFinished.emit(filename), and the thread ends
Thread_emitFinished ==
    /\ grabber.pc = "emit"
    /\ Len(pending) + grabber.conns <= MaxConn
    /\ Emit("downloadFinished", FetchedIso)
    /\ grabber' = [grabber EXCEPT !.pc = "idle"]
    /\ emitted' = Emits(<<"thread.downloadFinished">>)
    /\ lastOp' = Did("emitFinished", 0)
    /\ UNCHANGED <<download, writer, worker, release, iso, cancelled, outcome>>

\* The fetch raised LiveUSBError (for any reason, a cancellation it saw included):
\* self.downloadError.emit(e.args[0]), and the thread ends
Thread_emitError(reason) ==
    /\ grabber.pc \in {"fetch", "loop"}
    /\ Len(pending) + grabber.conns <= MaxConn
    /\ Emit("downloadError", reason)
    /\ grabber' = [grabber EXCEPT !.pc = "idle"]
    /\ emitted' = Emits(<<"thread.downloadError">>)
    /\ lastOp' = Did("emitError", 0)
    /\ UNCHANGED <<download, writer, worker, release, iso, cancelled, outcome>>

\* The fetch primitive saw beingCancelled and returned nothing: the thread ends.
Fetch_cancelReturn ==
    /\ grabber.pc \in {"fetch", "loop"}
    /\ grabber.beingCancelled
    /\ grabber' = [grabber EXCEPT !.pc = "idle"]
    /\ emitted' = Emits(<<>>)
    /\ lastOp' = Did("fetchStopped", 0)
    /\ UNCHANGED <<download, pending, writer, worker, release, iso, cancelled, outcome>>

\* ------------------------------------------------------------ ReleaseWriter
NoOutcome == [k |-> "none", m |-> StrVal(""), ready |-> FALSE]

\* Release.addInfo on a list
Release_addInfo(list, value) ==
    IF \A i \in 1..Len(list) : list[i] # value THEN Append(list, value) ELSE list

\* ReleaseWriter.status setter: the signal it emits, if any
Writer_statusSignal(s) == IF writer.status # s THEN <<"writer.statusChanged">> ELSE <<>>

\* ReleaseWriter.run
Writer_run ==
    /\ writer' = [writer EXCEPT !.running = TRUE, !.current = 0, !.status = "Writing"]
    /\ worker' = [worker EXCEPT !.pc = Thread_start(@, "dd")]

\* A faulty variant of Release.write: the error list is not cleared.
Release_write_KeepsErrors ==
    /\ release' = [info |-> Release_addInfo(<<>>, RestoreInfo), warning |-> <<>>,
                   error |-> release.error]
    /\ Writer_run
    /\ emitted' = Emits(<<"release.infoChanged", "release.errorChanged",
                          "release.warningChanged", "release.infoChanged",
                          "writer.runningChanged", "writer.currentChanged">>
                        \o Writer_statusSignal("Writing"))
    /\ lastOp' = Did("write", Len(release.error))
    /\ outcome' = [NoOutcome EXCEPT !.ready = readyToWrite(download)]
    /\ UNCHANGED <<download, grabber, pending, iso, cancelled>>

\* Release.write; the history keeps the number of errors it found listed
Release_write ==
    /\ release' = [info |-> Release_addInfo(<<>>, RestoreInfo), warning |-> <<>>,
                   error |-> <<>>]
    /\ Writer_run
    /\ emitted' = Emits(<<"release.infoChanged", "release.errorChanged",
                          "release.warningChanged", "release.infoChanged",
                          "writer.runningChanged", "writer.currentChanged">>
                        \o Writer_statusSignal("Writing"))
    /\ lastOp' = Did("write", Len(release.error))
    /\ outcome' = [NoOutcome EXCEPT !.ready = readyToWrite(download)]
    /\ UNCHANGED <<download, grabber, pending, iso, cancelled>>

\* ReleaseWriter.reset
Writer_reset(w) == [w EXCEPT !.running = FALSE, !.current = Sentinel]

\* ReleaseWriter.cancel: worker.terminate() and reset()
Writer_cancel ==
    /\ worker' = [worker EXCEPT !.terminating = (worker.pc # "idle")]
    /\ writer' = Writer_reset(writer)
    /\ emitted' = Emits(<<"writer.runningChanged", "writer.currentChanged">>)
    /\ lastOp' = Did("cancelWrite", 0)
    /\ outcome' = NoOutcome
    /\ UNCHANGED <<download, grabber, pending, release, iso, cancelled>>

\* ------------------------------------------------------------ writer thread
\* The thread has ended: nothing is left to terminate.
Ended == [pc |-> "idle", terminating |-> FALSE]

\* ReleaseWriterThread.update_progress, called by the write primitive
Worker_update_progress(value) ==
    /\ worker.pc = "dd"
    /\ writer' = [writer EXCEPT !.current = value]
    /\ emitted' = Emits(IF value # writer.current THEN <<"writer.currentChanged">> ELSE <<>>)
    /\ lastOp' = Did("writeProgress", 0)
    /\ UNCHANGED <<download, grabber, pending, worker, release, iso, cancelled, outcome>>

\* The status ddImage sets once the write primitive has returned.
DoneStatus == "Finished!"

\* ddImage: dd_image returned; self.parent.status = 'Finished!'
Worker_ddImage1 ==
    /\ worker.pc = "dd"
    /\ writer' = [writer EXCEPT !.status = DoneStatus]
    /\ worker' = [worker EXCEPT !.pc = "dd2"]
    /\ emitted' = Emits(Writer_statusSignal(DoneStatus))
    /\ lastOp' = Did("ddReturned", 0)
    /\ outcome' = [outcome EXCEPT !.k = "ok"]
    /\ UNCHANGED <<download, grabber, pending, release, iso, cancelled>>

\* A faulty variant of ddImage's last statement: finished is not set.
Worker_ddImage2_NotFinished ==
    /\ worker.pc = "dd2"
    /\ worker' = [worker EXCEPT !.pc = "end"]
    /\ emitted' = Emits(<<>>)
    /\ lastOp' = Did("ddFinished", 0)
    /\ UNCHANGED <<download, grabber, pending, writer, release, iso, cancelled, outcome>>

\* ddImage: self.parent.finished = True
Worker_ddImage2 ==
    /\ worker.pc = "dd2"
    /\ writer' = [writer EXCEPT !.finished = TRUE]
    /\ worker' = [worker EXCEPT !.pc = "end"]
    /\ emitted' = Emits(IF ~writer.finished THEN <<"writer.finishedChanged">> ELSE <<>>)
    /\ lastOp' = Did("ddFinished", 0)
    /\ UNCHANGED <<download, grabber, pending, release, iso, cancelled, outcome>>

\* run: dd_image raised e; self.parent.release.addError(e.args[0])
Worker_except(m) ==
    /\ worker.pc = "dd"
    /\ Commit(Release_addError(Ctx, m))
    /\ worker' = [worker EXCEPT !.pc = "end"]
    /\ lastOp' = Did("ddRaised", 0)
    /\ outcome' = [outcome EXCEPT !.k = "failed", !.m = m]
    /\ UNCHANGED <<grabber, pending, writer, cancelled>>

\* run: dd_image raised an exception without arguments; e.args[0] raises inside
\* the handler and the thread ends there.
Worker_exceptNoArgs ==
    /\ worker.pc = "dd"
    /\ worker' = Ended
    /\ emitted' = Emits(<<>>)
    /\ lastOp' = Did("ddRaisedNoArgs", 0)
    /\ outcome' = NoOutcome
    /\ UNCHANGED <<download, grabber, pending, writer, release, iso, cancelled>>

\* run: self.parent.running = False, and the thread ends
Worker_end ==
    /\ worker.pc = "end"
    /\ writer' = [writer EXCEPT !.running = FALSE]
    /\ worker' = Ended
    /\ emitted' = Emits(IF writer.running THEN <<"writer.runningChanged">> ELSE <<>>)
    /\ lastOp' = Did("writerEnded", 0)
    /\ UNCHANGED <<download, grabber, pending, release, iso, cancelled, outcome>>

\* QThread.terminate takes effect
Worker_terminated ==
    /\ worker.terminating
    /\ worker.pc # "idle"
    /\ worker' = Ended
    /\ emitted' = Emits(<<>>)
    /\ lastOp' = Did("terminated", 0)
    /\ outcome' = NoOutcome
    /\ UNCHANGED <<download, grabber, pending, writer, release, iso, cancelled>>

\* ------------------------------------------------------------ LiveUSBData: drives
\* The longest device list the backend reports.
MaxDrives == 2

DeviceIds == { "sdb", "sdc" }

\* The size of each device, one on each side of the first unit step.
DriveSize == ("sdb" :> 999) @@ ("sdc" :> 1000)

\* The backend's description of a drive (live.drives[...]).
Infos ==
    { [device |-> d, size |-> DriveSize[d], isIso9660 |-> iso9660] :
        d \in DeviceIds, iso9660 \in BOOLEAN }

\* live.drives.items(): at most MaxDrives drives, one per device.
Reports ==
    { reported : reported \in
        { r \in UNION { [1..n -> Infos] : n \in 0..MaxDrives } :
            \A i, j \in 1..Len(r) : r[i].device = r[j].device => i = j } }

\* The indexes a selection command may carry.
SelectInputs == (0 - MaxDrives - 1)..(MaxDrives + 1)

\* gb = 1000.0
gb == 1000

Units == <<"B", "KB", "MB", "GB", "TB">>

\* ' (%.1f UNIT)' % (usedSize / gb ** k): the integer part, the tenth, the unit
FormatSize(usedSize) ==
    LET k == IF usedSize < gb THEN 0
             ELSE IF usedSize < gb ^ 2 THEN 1
             ELSE IF usedSize < gb ^ 3 THEN 2
             ELSE IF usedSize < gb ^ 4 THEN 3 ELSE 4
        tenths == (usedSize * 20 + gb ^ k) \div (2 * gb ^ k)
    IN  <<tenths \div 10, tenths % 10, Units[k + 1]>>

\* name = info.friendlyName + the formatted size
DriveName(info) == <<info.device>> \o FormatSize(info.size)

\* USBDrive.__init__; obj is the identity of the new object
USBDrive(obj, name, drive) ==
    [obj |-> obj, name |-> name, drive |-> drive, beingRestored |-> FALSE]

\* Object identities; a list never holds more than MaxDrives of them, so a
\* pass always finds MaxDrives identities no listed object has.
ObjIds == 1..(2 * MaxDrives)

\* None, for _driveToRestore
NoDrive == 0

\* The k-th identity not borne by a listed drive.
NthFree(k) ==
    LET free == ObjIds \ { usbDrives[i].obj : i \in DOMAIN usbDrives }
    IN  CHOOSE x \in free : Cardinality({ y \in free : y < x }) = k - 1

\* live.drive: None, a device id (set by the currentDrive setter) or a
\* drive description (set by the reconciliation pass)
NoTarget == [t |-> "None", v |-> ""]
DeviceTarget(device) == [t |-> "device", v |-> device]
InfoTarget(info) == [t |-> "info", v |-> info.device]

\* Python's truth value of live.drive
Truthy(target) == target.t # "None"

\* list[i] for a Python index i: whether it raises IndexError, and the
\* position it reads
ValidIndex(i, n) == 0 - n <= i /\ i < n
PyPos(i, n) == IF i < 0 THEN n + i + 1 ELSE i + 1

\* tmpDrives != self._usbDrives: lists differ when their lengths differ or
\* some pair of elements is unequal; USBDrive defines no __eq__, so two
\* drives are equal only when they are the same object
ListsDiffer(a, b) ==
    \/ Len(a) # Len(b)
    \/ \E i \in 1..Len(a) : a[i].obj # b[i].obj

\* for r in self.releaseData: r.download.finished = False
ResetDownloadFinished(rel) ==
    [i \in DOMAIN rel |-> [rel[i] EXCEPT !.download_finished = "False"]]

\* LiveUSBData.currentDrive setter on the list as it stands; c holds
\* _currentDrive, live.drive, releaseData, _driveToRestore, the signals
\* emitted so far and whether an exception was raised
LiveUSBData_setCurrentDrive(c, list, value) ==
    IF Len(list) = 0
    THEN [c EXCEPT !.live = NoTarget, !.cur = -1,
                   !.out = Append(@, "currentDriveChanged")]
    ELSE LET v == IF value > Len(list) THEN 0 ELSE value
         IN  IF c.cur = v THEN c
             ELSE IF ~ValidIndex(v, Len(list))
             THEN [c EXCEPT !.cur = v, !.raised = TRUE]
             ELSE [c EXCEPT !.cur = v,
                            !.live = DeviceTarget(list[PyPos(v, Len(list))].drive.device),
                            !.out = Append(@, "currentDriveChanged"),
                            !.rel = ResetDownloadFinished(@)]

DriveCtx ==
    [cur |-> currentDrive, live |-> liveDrive, rel |-> releaseData,
     restore |-> driveToRestore, out |-> <<>>, raised |-> FALSE]

NoPass == [op |-> "init", how |-> "", differs |-> FALSE]

\* An exception leaves a handler: the binding prints it and goes on, or
\* aborts the program, depending on its version.
Raised == crashed' \in BOOLEAN

\* The currentDrive setter, called by the presentation layer
LiveUSBData_selectDrive(value) ==
    /\ ~crashed
    /\ LET c == LiveUSBData_setCurrentDrive(DriveCtx, usbDrives, value)
       IN  /\ currentDrive' = c.cur
           /\ liveDrive' = c.live
           /\ releaseData' = c.rel
           /\ emitted' = c.out
           /\ IF c.raised THEN Raised ELSE crashed' = FALSE
           /\ lastPass' = [op |-> "select", how |-> IF c.raised THEN "raised" ELSE "",
                           differs |-> FALSE]
    /\ UNCHANGED <<usbDrives, driveToRestore, unapplied>>

\* USBDeviceCallback: the body of "for i, drive in enumerate(self._usbDrives)"
\* from the i-th drive on
RECURSIVE USBDeviceCallback_loop(_, _, _, _)
USBDeviceCallback_loop(c, list, i, previouslySelected) ==
    IF i > Len(list) THEN c
    ELSE LET c1 == IF list[i].drive.device = previouslySelected
                   THEN LiveUSBData_setCurrentDrive(c, list, i - 1) ELSE c
             c2 == IF list[i].drive.isIso9660
                   THEN [c1 EXCEPT !.restore = list[i].obj] ELSE c1
             c3 == IF c2.cur = -1 /\ ~Truthy(c2.live)
                   THEN [c2 EXCEPT !.live = InfoTarget(list[i].drive)] ELSE c2
         IN  USBDeviceCallback_loop(c3, list, i + 1, previouslySelected)

\* self._driveToRestore and self._driveToRestore.beingRestored
RestoreInProgress ==
    /\ driveToRestore # NoDrive
    /\ \E i \in DOMAIN usbDrives :
          usbDrives[i].obj = driveToRestore /\ usbDrives[i].beingRestored

\* Whether the reported drives are, value for value, the listed ones.
SameDrives(reported) ==
    /\ Len(reported) = Len(usbDrives)
    /\ \A i \in 1..Len(reported) :
          /\ usbDrives[i].drive = reported[i]
          /\ usbDrives[i].name = DriveName(reported[i])

\* A pass that changes nothing.
USBDeviceCallback_return(how, reported) ==
    /\ emitted' = <<>>
    /\ lastPass' = [op |-> "reconcile", how |-> how, differs |-> ~SameDrives(reported)]
    /\ unapplied' = ~SameDrives(reported)
    /\ UNCHANGED <<usbDrives, currentDrive, driveToRestore, liveDrive, releaseData>>

\* The pass from "if tmpDrives != self._usbDrives" on, when the lists differ.
USBDeviceCallback_commit(tmpDrives, previouslySelected, reported) ==
    LET c0 == [DriveCtx EXCEPT !.out = <<"usbDrivesChanged">>, !.restore = NoDrive]
        c1 == LiveUSBData_setCurrentDrive(c0, tmpDrives, -1)
        c2 == USBDeviceCallback_loop(c1, tmpDrives, 1, previouslySelected)
    IN  /\ usbDrives' = tmpDrives
        /\ currentDrive' = c2.cur
        /\ driveToRestore' = c2.restore
        /\ liveDrive' = c2.live
        /\ releaseData' = c2.rel
        /\ emitted' = c2.out \o <<"currentDriveChanged", "driveToRestoreChanged">>
        /\ lastPass' = [op |-> "reconcile", how |-> "committed",
                        differs |-> ~SameDrives(reported)]
        /\ unapplied' = FALSE
        /\ crashed' = FALSE

\* A faulty variant of the reconciliation pass: a restore in progress does not
\* stop it.
USBDeviceCallback_Unguarded(reported) ==
    /\ ~crashed
    /\ LET n == Len(usbDrives)
           tmpDrives == [i \in 1..Len(reported) |->
                            USBDrive(NthFree(i), DriveName(reported[i]), reported[i])]
       IN  IF n > 0 /\ ~ValidIndex(currentDrive, n)
           THEN USBDeviceCallback_return("raised", reported) /\ Raised
           ELSE IF ListsDiffer(tmpDrives, usbDrives)
           THEN USBDeviceCallback_commit(tmpDrives,
                    IF n > 0 THEN usbDrives[PyPos(currentDrive, n)].drive.device ELSE "",
                    reported)
           ELSE USBDeviceCallback_return("same", reported) /\ crashed' = FALSE

\* LiveUSBData.USBDeviceCallback, with live.drives as the backend reports them
USBDeviceCallback(reported) ==
    /\ ~crashed
    /\ LET n == Len(usbDrives)
           tmpDrives == [i \in 1..Len(reported) |->
                            USBDrive(NthFree(i), DriveName(reported[i]), reported[i])]
       IN  IF n > 0 /\ ~ValidIndex(currentDrive, n)
           THEN USBDeviceCallback_return("raised", reported) /\ Raised
           ELSE IF RestoreInProgress
           THEN USBDeviceCallback_return("restoring", reported) /\ crashed' = FALSE
           ELSE IF ListsDiffer(tmpDrives, usbDrives)
           THEN USBDeviceCallback_commit(tmpDrives,
                    IF n > 0 THEN usbDrives[PyPos(currentDrive, n)].drive.device ELSE "",
                    reported)
           ELSE USBDeviceCallback_return("same", reported) /\ crashed' = FALSE

\* USBDrive.restore on the i-th listed drive
USBDrive_restore(i) ==
    /\ ~crashed
    /\ i \in DOMAIN usbDrives
    /\ usbDrives' = [usbDrives EXCEPT ![i].beingRestored = TRUE]
    /\ emitted' = <<"beingRestoredChanged">>
    /\ lastPass' = [op |-> "restore", how |-> "", differs |-> FALSE]
    /\ UNCHANGED <<currentDrive, driveToRestore, liveDrive, crashed, releaseData,
                   unapplied>>

\* USBDrive.restoreCallback: the backend is done restoring the i-th listed drive
USBDrive_restoreCallback(i) ==
    /\ ~crashed
    /\ i \in DOMAIN usbDrives
    /\ usbDrives[i].beingRestored
    /\ usbDrives' = [usbDrives EXCEPT ![i].beingRestored = FALSE]
    /\ emitted' = <<"beingRestoredChanged">>
    /\ lastPass' = [op |-> "restored", how |-> "", differs |-> FALSE]
    /\ UNCHANGED <<currentDrive, driveToRestore, liveDrive, crashed, releaseData,
                   unapplied>>


\* ------------------------------------------------------------ catalog and filter
\* The longest releaseData the model lets fillReleases build.
MaxReleases == 6

\* The number of listed releases whose jobs are ever started.
MaxActive == 1

\* The largest index a release selection carries.
MaxIndex == 3

IndexInputs == -1..MaxIndex

\* _archMap
ArchMap == ("Intel 64bit" :> <<"x86_64">>) @@ ("Intel 32bit" :> <<"i686", "i386">>)

\* The values handed to the archFilter setter; the last is no key of _archMap.
ArchInputs == { "Intel 64bit", "Intel 32bit", "ARM" }

\* The values handed to the nameFilter setter.
NameInputs == { <<>>, <<"b", "m">> }

\* str.lower, a character at a time
LowerChar(ch) == CASE ch = "A" -> "a" [] ch = "B" -> "b" [] OTHER -> ch
Lower(str) == [i \in 1..Len(str) |-> LowerChar(str[i])]

\* sub in str
Contains(sub, str) ==
    \E k \in 0..(Len(str) - Len(sub)) : SubSeq(str, k + 1, k + Len(sub)) = sub

\* What get_flavors finds: the two products and the local entry, or the local
\* entry alone when the page could not be read.
FullProduct ==
    [name |-> <<"A", "b">>, summary |-> <<"L", "a">>, source |-> "Antergos",
     variants |-> { "x86_64" }]
MinimalProduct ==
    [name |-> <<"A", "b", "M">>, summary |-> <<"B">>, source |-> "Antergos Minimal",
     variants |-> { "x86_64" }]
LocalEntry ==
    [name |-> <<"C">>, summary |-> <<"P", "a">>, source |-> "Local",
     variants |-> { "" }]
Products == { <<>>, <<FullProduct, MinimalProduct>> }

\* Release.isSeparator, Release.isLocal
isSeparator(data) == data.source = ""
isLocal(data) == data.source = "Local"

\* Release.arch: the keys of _archMap with a variant in the data (the code's
\* list names a key once per variant; only membership is ever read)
Release_arch(data) ==
    { key \in DOMAIN ArchMap :
        \E k \in DOMAIN ArchMap[key] : ArchMap[key][k] \in data.variants }

\* ReleaseListProxy.archFilter getter: the key whose abbreviations are
\* _archFilter (the setter only ever stores a value of _archMap)
Proxy_archFilter(p) ==
    IF \E key \in DOMAIN ArchMap : ArchMap[key] = p.archFilter
    THEN CHOOSE key \in DOMAIN ArchMap : ArchMap[key] = p.archFilter
    ELSE "Intel 64bit"

\* A faulty variant of filterAcceptsRow: the name is matched as typed.
filterAcceptsRow_CaseSensitive(row, p) ==
    /\ \/ Len(p.archFilter) = 0
       \/ isLocal(row)
       \/ Proxy_archFilter(p) \in Release_arch(row)
       \/ isSeparator(row)
    /\ (Len(p.nameFilter) = 0 \/ ~isSeparator(row))
    /\ \/ Len(p.nameFilter) = 0
       \/ Contains(p.nameFilter, row.name)
       \/ Contains(p.nameFilter, row.summary)

\* ReleaseListProxy.filterAcceptsRow
filterAcceptsRow(row, p) ==
    /\ \/ Len(p.archFilter) = 0
       \/ isLocal(row)
       \/ Proxy_archFilter(p) \in Release_arch(row)
       \/ isSeparator(row)
    /\ (Len(p.nameFilter) = 0 \/ ~isSeparator(row))
    /\ \/ Len(p.nameFilter) = 0
       \/ Contains(Lower(p.nameFilter), Lower(row.name))
       \/ Contains(Lower(p.nameFilter), Lower(row.summary))

\* invalidate / invalidateFilter: the source rows (from 0) the proxy accepts
RECURSIVE Proxy_invalidate(_, _, _)
Proxy_invalidate(rel, p, i) ==
    IF i > Len(rel) THEN <<>>
    ELSE (IF filterAcceptsRow(rel[i].data, p) THEN <<i - 1>> ELSE <<>>)
         \o Proxy_invalidate(rel, p, i + 1)

\* Release.get_url is None when no variant serves the selected architecture,
\* and Release.__init__ then raises on "'.iso' in self.get_url()"
Release_initRaises(data, p) ==
    /\ ~isLocal(data)
    /\ \A arch \in data.variants :
          \A k \in DOMAIN ArchMap[Proxy_archFilter(p)] :
              ArchMap[Proxy_archFilter(p)][k] # arch

\* Release.__init__, reduced to what the session reads of a release: its jobs'
\* flags and the path of its download
NewRelease(index, data) ==
    [index |-> index, data |-> data, dlRunning |-> FALSE, wRunning |-> FALSE,
     wFinished |-> FALSE, download_finished |-> "absent", path |-> <<>>]

\* The releases fillReleases appends to rel before a constructor raises.
RECURSIVE fillReleases_loop(_, _, _)
fillReleases_loop(rel, p, i) ==
    IF i > Len(releases) \/ Release_initRaises(releases[i], p) THEN rel
    ELSE fillReleases_loop(Append(rel, NewRelease(Len(rel), releases[i])), p, i + 1)

\* The signals each release relays when the proxy emits archChanged.
RECURSIVE Release_relayArchChanged(_)
Release_relayArchChanged(n) ==
    IF n = 0 THEN <<>>
    ELSE Release_relayArchChanged(n - 1)
         \o <<"release.sizeChanged", "release.pathChanged", "release.statusChanged">>

\* A faulty variant of fillReleases: it does not look at the running jobs.
LiveUSBData_fillReleases_Unguarded ==
    /\ ~crashed
    /\ Len(releaseData) + Len(releases) <= MaxReleases
    /\ LET n == Len(releaseData)
           filled == fillReleases_loop(releaseData, proxy, 1)
       IN  IF n > 0 /\ ~ValidIndex(currentIndex, n)
           THEN /\ Raised
                /\ emitted' = <<>>
                /\ lastPass' = [op |-> "fill", how |-> "raised", differs |-> FALSE]
                /\ UNCHANGED <<releaseData, view>>
           ELSE IF Len(filled) < n + Len(releases)
           THEN /\ Raised
                /\ releaseData' = filled
                /\ emitted' = <<"modelAboutToBeReset">>
                /\ lastPass' = [op |-> "fill", how |-> "raised", differs |-> TRUE]
                /\ UNCHANGED view
           ELSE /\ crashed' = FALSE
                /\ releaseData' = filled
                /\ view' = Proxy_invalidate(filled, proxy, 1)
                /\ emitted' = <<"modelAboutToBeReset", "modelReset", "currentImageChanged">>
                /\ lastPass' = [op |-> "fill", how |-> "filled", differs |-> TRUE]
    /\ updateThread' = IF updateThread = "finished" THEN "handled" ELSE updateThread
    /\ UNCHANGED <<currentIndex, releases, proxy>>

\* A faulty variant of fillReleases: the list is built anew instead of
\* appended to.
LiveUSBData_fillReleases_Replaces ==
    /\ ~crashed
    /\ Len(releaseData) + Len(releases) <= MaxReleases
    /\ LET n == Len(releaseData)
           filled == fillReleases_loop(<<>>, proxy, 1)
       IN  IF n > 0 /\ ~ValidIndex(currentIndex, n)
           THEN /\ Raised
                /\ emitted' = <<>>
                /\ lastPass' = [op |-> "fill", how |-> "raised", differs |-> FALSE]
                /\ UNCHANGED <<releaseData, view>>
           ELSE IF n > 0 /\ (\/ releaseData[PyPos(currentIndex, n)].dlRunning
                             \/ releaseData[PyPos(currentIndex, n)].wRunning)
           THEN /\ crashed' = FALSE
                /\ emitted' = <<>>
                /\ lastPass' = [op |-> "fill", how |-> "running", differs |-> FALSE]
                /\ UNCHANGED <<releaseData, view>>
           ELSE IF Len(filled) < Len(releases)
           THEN /\ Raised
                /\ releaseData' = filled
                /\ emitted' = <<"modelAboutToBeReset">>
                /\ lastPass' = [op |-> "fill", how |-> "raised", differs |-> TRUE]
                /\ UNCHANGED view
           ELSE /\ crashed' = FALSE
                /\ releaseData' = filled
                /\ view' = Proxy_invalidate(filled, proxy, 1)
                /\ emitted' = <<"modelAboutToBeReset", "modelReset", "currentImageChanged">>
                /\ lastPass' = [op |-> "fill", how |-> "filled", differs |-> TRUE]
    /\ updateThread' = IF updateThread = "finished" THEN "handled" ELSE updateThread
    /\ UNCHANGED <<currentIndex, releases, proxy>>

\* LiveUSBData.fillReleases
LiveUSBData_fillReleases ==
    /\ ~crashed
    /\ Len(releaseData) + Len(releases) <= MaxReleases
    /\ LET n == Len(releaseData)
           filled == fillReleases_loop(releaseData, proxy, 1)
       IN  IF n > 0 /\ ~ValidIndex(currentIndex, n)
           THEN /\ Raised
                /\ emitted' = <<>>
                /\ lastPass' = [op |-> "fill", how |-> "raised", differs |-> FALSE]
                /\ UNCHANGED <<releaseData, view>>
           ELSE IF n > 0 /\ (\/ releaseData[PyPos(currentIndex, n)].dlRunning
                             \/ releaseData[PyPos(currentIndex, n)].wRunning)
           THEN /\ crashed' = FALSE
                /\ emitted' = <<>>
                /\ lastPass' = [op |-> "fill", how |-> "running", differs |-> FALSE]
                /\ UNCHANGED <<releaseData, view>>
           ELSE IF Len(filled) < n + Len(releases)
           THEN /\ Raised
                /\ releaseData' = filled
                /\ emitted' = <<"modelAboutToBeReset">>
                /\ lastPass' = [op |-> "fill", how |-> "raised", differs |-> TRUE]
                /\ UNCHANGED view
           ELSE /\ crashed' = FALSE
                /\ releaseData' = filled
                /\ view' = Proxy_invalidate(filled, proxy, 1)
                /\ emitted' = <<"modelAboutToBeReset", "modelReset", "currentImageChanged">>
                /\ lastPass' = [op |-> "fill", how |-> "filled", differs |-> TRUE]
    /\ updateThread' = IF updateThread = "finished" THEN "handled" ELSE updateThread
    /\ UNCHANGED <<currentIndex, releases, proxy>>

\* DataUpdateThread.run: get_flavors stores what it found when that is more
\* than the local entry; the thread's finished signal then calls fillReleases
DataUpdateThread_run(products) ==
    /\ ~crashed
    /\ updateThread = "not started"
    /\ LET r == products \o <<LocalEntry>>
       IN  releases' = IF Len(r) > 1 THEN r ELSE releases
    /\ updateThread' = "finished"
    /\ emitted' = <<"updateThread.finished">>
    /\ lastPass' = [op |-> "update", how |-> "", differs |-> FALSE]
    /\ UNCHANGED <<releaseData, currentIndex, proxy, view, crashed>>

\* LiveUSBData.currentIndex setter
LiveUSBData_setCurrentIndex(value) ==
    /\ ~crashed
    /\ currentIndex' = value
    /\ emitted' = IF value # currentIndex THEN <<"currentImageChanged">> ELSE <<>>
    /\ lastPass' = [op |-> "selectImage", how |-> "", differs |-> value # currentIndex]
    /\ UNCHANGED <<releaseData, releases, updateThread, proxy, view, crashed>>

\* A faulty variant of the nameFilter setter: the jobs of the rows that leave
\* the view are stopped.
Proxy_setNameFilter_StopsHidden(value) ==
    /\ ~crashed
    /\ IF value # proxy.nameFilter
       THEN LET p == [proxy EXCEPT !.nameFilter = value]
                shown == Proxy_invalidate(releaseData, p, 1)
            IN  /\ proxy' = p
                /\ emitted' = <<"nameFilterChanged">>
                /\ view' = shown
                /\ releaseData' =
                      [i \in DOMAIN releaseData |->
                          IF \E k \in DOMAIN shown : shown[k] = i - 1
                          THEN releaseData[i]
                          ELSE [releaseData[i] EXCEPT !.dlRunning = FALSE,
                                                      !.wRunning = FALSE]]
       ELSE /\ emitted' = <<>>
            /\ UNCHANGED <<proxy, view, releaseData>>
    /\ lastPass' = [op |-> "nameFilter", how |-> "", differs |-> value # proxy.nameFilter]
    /\ UNCHANGED <<currentIndex, releases, updateThread, crashed>>

\* ReleaseListProxy.nameFilter setter
Proxy_setNameFilter(value) ==
    /\ ~crashed
    /\ IF value # proxy.nameFilter
       THEN LET p == [proxy EXCEPT !.nameFilter = value]
            IN  /\ proxy' = p
                /\ emitted' = <<"nameFilterChanged">>
                /\ view' = Proxy_invalidate(releaseData, p, 1)
       ELSE /\ emitted' = <<>>
            /\ UNCHANGED <<proxy, view>>
    /\ lastPass' = [op |-> "nameFilter", how |-> "", differs |-> value # proxy.nameFilter]
    /\ UNCHANGED <<releaseData, currentIndex, releases, updateThread, crashed>>

\* ReleaseListProxy.archFilter setter. Its test "self.archFilter !=
\* self._archMap[value]" compares the key with a list of abbreviations, which
\* never are equal: every value that is a key is stored and announced.
Proxy_setArchFilter(value) ==
    /\ ~crashed
    /\ IF value \in DOMAIN ArchMap
       THEN LET p == [proxy EXCEPT !.archFilter = ArchMap[value]]
            IN  /\ proxy' = p
                /\ emitted' = <<"archChanged">>
                              \o Release_relayArchChanged(Len(releaseData))
                /\ view' = Proxy_invalidate(releaseData, p, 1)
       ELSE /\ emitted' = <<>>
            /\ UNCHANGED <<proxy, view>>
    /\ lastPass' = [op |-> "archFilter", how |-> "",
                    differs |-> value \in DOMAIN ArchMap /\ ArchMap[value] # proxy.archFilter]
    /\ UNCHANGED <<releaseData, currentIndex, releases, updateThread, crashed>>

\* The number of rows the proxy reports at most while it shows the front page.
FrontPageRows == 3

\* ReleaseListProxy.rowCount; the source model's rowCount is len(releaseData)
Proxy_rowCount(rel, p) ==
    IF p.frontPage /\ Len(rel) > FrontPageRows THEN FrontPageRows ELSE Len(rel)

\* ReleaseListProxy.isFront setter
Proxy_setIsFront(value) ==
    /\ ~crashed
    /\ IF value # proxy.frontPage
       THEN LET p == [proxy EXCEPT !.frontPage = value]
            IN  /\ proxy' = p
                /\ emitted' = <<"isFrontChanged">>
                /\ view' = Proxy_invalidate(releaseData, p, 1)
       ELSE /\ emitted' = <<>>
            /\ UNCHANGED <<proxy, view>>
    /\ lastPass' = [op |-> "isFront", how |-> "", differs |-> value # proxy.frontPage]
    /\ UNCHANGED <<releaseData, currentIndex, releases, updateThread, crashed>>

\* Whether a job of the i-th release was started, and the number of such
\* releases.
Started(i) ==
    releaseData[i].dlRunning \/ releaseData[i].wRunning \/ releaseData[i].wFinished
Active == Cardinality({ i \in DOMAIN releaseData : Started(i) })

\* The jobs of the listed releases, reduced to the flags the session reads.
\* Release.get on the i-th release, whose download starts when it has no
\* path: running = True
Entry_startDownload(i) ==
    /\ ~crashed
    /\ i \in DOMAIN releaseData
    /\ ~releaseData[i].dlRunning
    /\ Len(releaseData[i].path) <= 0
    /\ Started(i) \/ Active < MaxActive
    /\ releaseData' = [releaseData EXCEPT ![i].dlRunning = TRUE]
    /\ emitted' = <<"download.runningChanged">>
    /\ lastPass' = [op |-> "job", how |-> "", differs |-> FALSE]
    /\ UNCHANGED <<currentIndex, releases, updateThread, proxy, view, crashed>>

\* ReleaseDownload.end or reset on the i-th release: running = False
Entry_endDownload(i) ==
    /\ ~crashed
    /\ i \in DOMAIN releaseData
    /\ releaseData[i].dlRunning
    /\ releaseData' = [releaseData EXCEPT ![i].dlRunning = FALSE]
    /\ emitted' = <<"download.runningChanged">>
    /\ lastPass' = [op |-> "job", how |-> "", differs |-> FALSE]
    /\ UNCHANGED <<currentIndex, releases, updateThread, proxy, view, crashed>>

\* Release.write on the i-th release, ReleaseWriter.run: running = True; the
\* writer thread starts and calls live.dd_image, which writes the image the
\* backend holds
Entry_startWrite(i) ==
    /\ ~crashed
    /\ i \in DOMAIN releaseData
    /\ ~releaseData[i].wRunning
    /\ Started(i) \/ Active < MaxActive
    /\ releaseData' = [releaseData EXCEPT ![i].wRunning = TRUE]
    /\ emitted' = <<"writer.runningChanged">>
    /\ lastPass' = [op |-> "job", how |-> "", differs |-> FALSE]
    /\ UNCHANGED <<currentIndex, releases, updateThread, proxy, view, crashed>>

\* The writer thread of the i-th release ends: dd_image returned (finished =
\* True) or raised, then running = False
Entry_endWrite(i, written) ==
    /\ ~crashed
    /\ i \in DOMAIN releaseData
    /\ releaseData[i].wRunning
    /\ releaseData' = [releaseData EXCEPT ![i].wRunning = FALSE,
                                          ![i].wFinished = @ \/ written]
    /\ emitted' = <<"writer.runningChanged">>
    /\ lastPass' = [op |-> "job", how |-> "", differs |-> FALSE]
    /\ UNCHANGED <<currentIndex, releases, updateThread, proxy, view, crashed>>

\* The file the fetch primitive returns for the i-th listed release: each
\* release has a URL, and so a file name, of its own.
Digit == <<"1", "2", "3", "4", "5", "6", "7", "8", "9">>
EntryIso(i) == Append(FetchedIso, Digit[i])

\* The download of the i-th listed release as a handler's context; live is
\* the one backend every release was constructed with, so c.iso is shared.
EntryCtx(i) ==
    [d |-> [path |-> releaseData[i].path, running |-> releaseData[i].dlRunning,
            current |-> Sentinel, maximum |-> Sentinel],
     iso |-> iso, error |-> <<>>, out |-> <<>>]

\* Writing back what a handler of the i-th release's download did.
EntryCommit(i, c) ==
    /\ releaseData' = [releaseData EXCEPT ![i].path = c.d.path,
                                          ![i].dlRunning = c.d.running]
    /\ iso' = c.iso
    /\ emitted' = c.out

\* Release.path setter on the i-th listed release (a local file is picked)
Entry_setPath(i, v) ==
    /\ ~crashed
    /\ i \in DOMAIN releaseData
    /\ LET value == StripScheme(v)
       IN  IF Release_path # value
           THEN LET c == Download_setPath(EntryCtx(i), value)
                IN  EntryCommit(i, [c EXCEPT !.out = Append(@, "release.pathChanged")])
           ELSE /\ emitted' = <<>>
                /\ UNCHANGED <<releaseData, iso>>
    /\ lastPass' = [op |-> "path", how |-> "", differs |-> FALSE]
    /\ UNCHANGED <<currentIndex, releases, updateThread, proxy, view, crashed>>

\* The fetch of the i-th listed release returned its file; ReleaseDownload.end
\* and then childFinished, which records the file as the release's path
Entry_childFinished(i) ==
    /\ ~crashed
    /\ i \in DOMAIN releaseData
    /\ releaseData[i].dlRunning
    /\ EntryCommit(i, Download_childFinished(EntryCtx(i), EntryIso(i)))
    /\ lastPass' = [op |-> "fetched", how |-> "", differs |-> FALSE]
    /\ UNCHANGED <<currentIndex, releases, updateThread, proxy, view, crashed>>

\* ReleaseDownload.cancel on the i-th listed release
Entry_cancel(i) ==
    /\ ~crashed
    /\ i \in DOMAIN releaseData
    /\ EntryCommit(i, Download_reset(EntryCtx(i)))
    /\ lastPass' = [op |-> "cancel", how |-> "", differs |-> FALSE]
    /\ UNCHANGED <<currentIndex, releases, updateThread, proxy, view, crashed>>

\* The session after LiveUSBData.__init__: fillReleases found the catalog
\* empty, the drives are still to be reported.
SessionInit ==
    /\ usbDrives = <<>>
    /\ currentDrive = 0
    /\ driveToRestore = NoDrive
    /\ liveDrive = NoTarget
    /\ crashed = FALSE
    /\ lastPass = NoPass
    /\ unapplied = FALSE
    /\ releaseData = <<>>
    /\ currentIndex = 0
    /\ releases = <<>>
    /\ updateThread = "not started"
    /\ proxy = [archFilter |-> <<"x86_64">>, nameFilter |-> <<>>, frontPage |-> TRUE]
    /\ view = <<>>

NoRowRead == <<LocalEntry, <<"x86_64">>, <<>>>>

FilterIdle ==
    /\ row_in = NoRowRead
    /\ row_out = <<>>

\* ------------------------------------------------------------ specification
\* The state after Release.__init__.
JobInit ==
    /\ download = [running |-> FALSE, current |-> Sentinel, maximum |-> Sentinel,
                   path |-> <<>>]
    /\ grabber = [pc |-> "idle", beingCancelled |-> FALSE, conns |-> 0]
    /\ pending = <<>>
    /\ writer = [running |-> FALSE, current |-> Sentinel, status |-> "",
                 finished |-> FALSE]
    /\ worker = Ended
    /\ release = [info |-> <<>>, warning |-> <<DestructiveWarning>>, error |-> <<>>]
    /\ iso = <<>>
    /\ emitted = <<>>
    /\ lastOp = <<"init", 0>>
    /\ cancelled = FALSE
    /\ outcome = NoOutcome

NoStatusRead == <<FALSE, FALSE, FALSE, FALSE, TRUE, "">>

Init ==
    /\ JobInit
    /\ tracing = FALSE
    /\ st_in = NoStatusRead
    /\ st_out = <<>>
    /\ SessionInit
    /\ FilterIdle

\* The same program, with the emitted signals recorded.
InitSignals ==
    /\ JobInit
    /\ tracing = TRUE
    /\ st_in = NoStatusRead
    /\ st_out = <<>>
    /\ SessionInit
    /\ FilterIdle

\* The steps of the download: the GUI thread's handlers and the download thread.
NextDownload ==
    \/ (Release_get /\ UNCHANGED <<tracing, st_in, st_out, sessionVars>>)
    \/ (Download_cancel /\ UNCHANGED <<tracing, st_in, st_out, sessionVars>>)
    \/ (Deliver_childFinished /\ UNCHANGED <<tracing, st_in, st_out, sessionVars>>)
    \/ (Deliver_childError /\ UNCHANGED <<tracing, st_in, st_out, sessionVars>>)
    \/ (\E v \in PathInputs : Release_setPath(v) /\ UNCHANGED <<tracing, st_in, st_out, sessionVars>>)
    \/ (Thread_begin /\ UNCHANGED <<tracing, st_in, st_out, sessionVars>>)
    \/ (Download_start1 /\ UNCHANGED <<tracing, st_in, st_out, sessionVars>>)
    \/ (Download_start2 /\ UNCHANGED <<tracing, st_in, st_out, sessionVars>>)
    \/ (\E a \in Amounts : Thread_update(a) /\ UNCHANGED <<tracing, st_in, st_out, sessionVars>>)
    \/ (Download_end1 /\ UNCHANGED <<tracing, st_in, st_out, sessionVars>>)
    \/ (Download_end2 /\ UNCHANGED <<tracing, st_in, st_out, sessionVars>>)
    \/ (Thread_emitFinished /\ UNCHANGED <<tracing, st_in, st_out, sessionVars>>)
    \/ (\E r \in FetchReasons : Thread_emitError(r) /\ UNCHANGED <<tracing, st_in, st_out, sessionVars>>)
    \/ (Fetch_cancelReturn /\ UNCHANGED <<tracing, st_in, st_out, sessionVars>>)

\* The steps of the write: the GUI thread's handlers and the writer thread.
NextWriter ==
    \/ (Release_write /\ UNCHANGED <<tracing, st_in, st_out, sessionVars>>)
    \/ (Writer_cancel /\ UNCHANGED <<tracing, st_in, st_out, sessionVars>>)
    \/ (\E v \in WriteProgress : Worker_update_progress(v) /\ UNCHANGED <<tracing, st_in, st_out, sessionVars>>)
    \/ (Worker_ddImage1 /\ UNCHANGED <<tracing, st_in, st_out, sessionVars>>)
    \/ (Worker_ddImage2 /\ UNCHANGED <<tracing, st_in, st_out, sessionVars>>)
    \/ (\E m \in WriteReasons : Worker_except(m) /\ UNCHANGED <<tracing, st_in, st_out, sessionVars>>)
    \/ (Worker_exceptNoArgs /\ UNCHANGED <<tracing, st_in, st_out, sessionVars>>)
    \/ (Worker_end /\ UNCHANGED <<tracing, st_in, st_out, sessionVars>>)
    \/ (Worker_terminated /\ UNCHANGED <<tracing, st_in, st_out, sessionVars>>)

Next == NextDownload \/ NextWriter

\* The whole release: download and write side by side.
Spec == Init /\ [][Next]_vars

\* The download alone (the write side never touches the download's state),
\* with every step and its signals recorded.
SpecDownload == InitSignals /\ [][NextDownload]_vars


\* The status derivation alone: any tuple of inputs, read up to MaxReads times.
MaxReads == 2

StatusInputs == BOOLEAN \X BOOLEAN \X BOOLEAN \X BOOLEAN \X BOOLEAN \X WriterStatuses

InitStatus ==
    /\ JobInit
    /\ tracing = FALSE
    /\ st_in \in StatusInputs
    /\ st_out = <<>>
    /\ SessionInit
    /\ FilterIdle

\* One read of Release.status on the tuple.
ReadStatus ==
    /\ Len(st_out) < MaxReads
    /\ st_out' = Append(st_out, status(st_in[1], st_in[2], st_in[3], st_in[4],
                                       st_in[5], st_in[6]))
    /\ UNCHANGED <<st_in, tracing>>
    /\ UNCHANGED jobVars
    /\ UNCHANGED sessionVars

SpecStatus == InitStatus /\ [][ReadStatus]_vars

\* The messages of a release: downloads that fail before they report a size,
\* and writes, with every step recorded.
NextMessages ==
    \/ (Release_get /\ UNCHANGED <<tracing, st_in, st_out, sessionVars>>)
    \/ (Thread_begin /\ UNCHANGED <<tracing, st_in, st_out, sessionVars>>)
    \/ (\E r \in FetchReasons : Thread_emitError(r) /\ UNCHANGED <<tracing, st_in, st_out, sessionVars>>)
    \/ (Deliver_childError /\ UNCHANGED <<tracing, st_in, st_out, sessionVars>>)
    \/ NextWriter

SpecMessages == InitSignals /\ [][NextMessages]_vars

\* ------------------------------------------------------------ the session's specifications
\* What the session's handlers leave alone of the release's jobs.
jobState == <<download, grabber, pending, writer, worker, release, iso, lastOp,
              cancelled, outcome>>

\* The catalog once the update thread has stored it and fillReleases has
\* listed it, with the first release written to a drive or not.
LoadedCatalog == <<FullProduct, MinimalProduct, LocalEntry>>

LoadedReleases(written) ==
    [i \in 1..3 |-> [NewRelease(i - 1, LoadedCatalog[i])
                        EXCEPT !.wFinished = (written /\ i = 1)]]

\* The drives from construction on, met by a catalog that is still empty or
\* already loaded.
InitDrives ==
    /\ JobInit
    /\ tracing = TRUE
    /\ st_in = NoStatusRead
    /\ st_out = <<>>
    /\ FilterIdle
    /\ usbDrives = <<>>
    /\ currentDrive = 0
    /\ driveToRestore = NoDrive
    /\ liveDrive = NoTarget
    /\ crashed = FALSE
    /\ lastPass = NoPass
    /\ unapplied = FALSE
    /\ currentIndex = 0
    /\ proxy = [archFilter |-> <<"x86_64">>, nameFilter |-> <<>>, frontPage |-> TRUE]
    /\ \/ /\ releaseData = <<>>
          /\ releases = <<>>
          /\ updateThread = "not started"
          /\ view = <<>>
       \/ /\ releaseData = LoadedReleases(TRUE)
          /\ releases = LoadedCatalog
          /\ updateThread = "handled"
          /\ view = <<0, 1, 2>>

DriveFrame ==
    UNCHANGED <<jobState, tracing, st_in, st_out, currentIndex, releases,
                updateThread, proxy, view, filterVars>>

NextDrives ==
    \/ (\E value \in SelectInputs : LiveUSBData_selectDrive(value) /\ DriveFrame)
    \/ (\E reported \in Reports : USBDeviceCallback(reported) /\ DriveFrame)
    \/ (\E i \in 1..MaxDrives : USBDrive_restore(i) /\ DriveFrame)
    \/ (\E i \in 1..MaxDrives : USBDrive_restoreCallback(i) /\ DriveFrame)

\* The drive inventory: selections, reconciliation passes and restores.
SpecDrives == InitDrives /\ [][NextDrives]_vars

\* The drive inventory with the backend bound to call back when it is done
\* restoring a drive.
SpecRestore ==
    /\ InitDrives
    /\ [][NextDrives]_vars
    /\ WF_vars(\E i \in 1..MaxDrives : USBDrive_restoreCallback(i) /\ DriveFrame)

InitCatalog ==
    /\ JobInit
    /\ tracing = TRUE
    /\ st_in = NoStatusRead
    /\ st_out = <<>>
    /\ SessionInit
    /\ FilterIdle

CatalogFrame ==
    UNCHANGED <<jobState, tracing, st_in, st_out, usbDrives, currentDrive,
                driveToRestore, liveDrive, unapplied, filterVars>>

NextCatalog ==
    \/ (LiveUSBData_fillReleases /\ CatalogFrame)
    \/ (\E products \in Products : DataUpdateThread_run(products) /\ CatalogFrame)
    \/ (\E value \in IndexInputs : LiveUSBData_setCurrentIndex(value) /\ CatalogFrame)
    \/ (\E value \in NameInputs : Proxy_setNameFilter(value) /\ CatalogFrame)
    \/ (\E value \in ArchInputs : Proxy_setArchFilter(value) /\ CatalogFrame)
    \/ (\E i \in 1..MaxReleases : Entry_startDownload(i) /\ CatalogFrame)
    \/ (\E i \in 1..MaxReleases : Entry_endDownload(i) /\ CatalogFrame)
    \/ (\E i \in 1..MaxReleases : Entry_startWrite(i) /\ CatalogFrame)
    \/ (\E i \in 1..MaxReleases, written \in BOOLEAN : Entry_endWrite(i, written) /\ CatalogFrame)

\* The catalog: refreshes, release selection, the filters and the jobs' flags.
SpecCatalog == InitCatalog /\ [][NextCatalog]_vars

\* The filter alone: any row under any filters, filtered up to MaxReads times.
NextView ==
    \/ (LiveUSBData_fillReleases /\ CatalogFrame)
    \/ (\E products \in Products : DataUpdateThread_run(products) /\ CatalogFrame)
    \/ (\E value \in NameInputs : Proxy_setNameFilter(value) /\ CatalogFrame)
    \/ (\E value \in ArchInputs : Proxy_setArchFilter(value) /\ CatalogFrame)
    \/ (\E value \in BOOLEAN : Proxy_setIsFront(value) /\ CatalogFrame)

\* The filtered view of the catalog: refreshes, the filters and the front page.
SpecView == InitCatalog /\ [][NextView]_vars

\* The listed releases' images from a loaded catalog on.
InitImages ==
    /\ JobInit
    /\ tracing = TRUE
    /\ st_in = NoStatusRead
    /\ st_out = <<>>
    /\ FilterIdle
    /\ usbDrives = <<>>
    /\ currentDrive = 0
    /\ driveToRestore = NoDrive
    /\ liveDrive = NoTarget
    /\ crashed = FALSE
    /\ lastPass = NoPass
    /\ unapplied = FALSE
    /\ currentIndex = 0
    /\ proxy = [archFilter |-> <<"x86_64">>, nameFilter |-> <<>>, frontPage |-> TRUE]
    /\ releaseData = LoadedReleases(FALSE)
    /\ releases = LoadedCatalog
    /\ updateThread = "handled"
    /\ view = <<0, 1, 2>>

ImageFrame ==
    UNCHANGED <<download, grabber, pending, writer, worker, release, lastOp,
                cancelled, outcome, tracing, st_in, st_out, usbDrives,
                currentDrive, driveToRestore, liveDrive, unapplied, filterVars>>

NextImages ==
    \/ (\E i \in 1..MaxReleases, v \in PathInputs : Entry_setPath(i, v) /\ ImageFrame)
    \/ (\E i \in 1..MaxReleases : Entry_startDownload(i) /\ UNCHANGED iso /\ ImageFrame)
    \/ (\E i \in 1..MaxReleases : Entry_childFinished(i) /\ ImageFrame)
    \/ (\E i \in 1..MaxReleases : Entry_cancel(i) /\ ImageFrame)
    \/ (\E i \in 1..MaxReleases : Entry_startWrite(i) /\ UNCHANGED iso /\ ImageFrame)
    \/ (\E i \in 1..MaxReleases, written \in BOOLEAN :
           Entry_endWrite(i, written) /\ UNCHANGED iso /\ ImageFrame)

\* The images of several releases and the one image the backend holds.
SpecImages == InitImages /\ [][NextImages]_vars

FilterRows ==
    [name : { <<>>, <<"A", "b">> }, summary : { <<>>, <<"b", "A">>, <<"B">> },
     source : { "", "Local", "Antergos" },
     variants : { { "" }, { "x86_64" }, { "i386" }, { "x86_64", "i686" } }]

ArchFilters == { ArchMap[key] : key \in DOMAIN ArchMap }

NameFilters == { <<>>, <<"a">>, <<"a", "B">>, <<"B", "a">> }

InitFilter ==
    /\ JobInit
    /\ tracing = FALSE
    /\ st_in = NoStatusRead
    /\ st_out = <<>>
    /\ SessionInit
    /\ row_in \in FilterRows \X ArchFilters \X NameFilters
    /\ row_out = <<>>

\* One call of filterAcceptsRow on the row under the filters.
ReadFilter ==
    /\ Len(row_out) < MaxReads
    /\ row_out' = Append(row_out,
                         filterAcceptsRow(row_in[1],
                             [archFilter |-> row_in[2], nameFilter |-> row_in[3],
                              frontPage |-> TRUE]))
    /\ UNCHANGED <<row_in, tracing, st_in, st_out>>
    /\ UNCHANGED <<jobVars, driveVars, catalogVars>>

SpecFilter == InitFilter /\ [][ReadFilter]_vars


\* ------------------------------------------------------------ properties
\* The job's idle values.
Idle(d) ==
    ~d.running /\ d.current = Sentinel /\ d.maximum = Sentinel /\ d.path = <<>>

Status == Release_status(download, writer, release)

\* The rows of the status table for a tuple t, in order: <<condition, result>>.
StatusRows(t) ==
    << << ~t[1] /\ ~t[2] /\ ~t[3] /\ ~t[4] /\ t[5], "Starting" >>,
       << t[2], "Downloading" >>,
       << ~t[5], "Error" >>,
       << t[3] /\ ~t[4] /\ ~t[1], "Ready to write" >>,
       << t[6] # "", t[6] >>,
       << TRUE, "Finished" >> >>

\* The result of the first row whose condition holds.
FirstMatch(t) ==
    LET rows == StatusRows(t)
        k == CHOOSE i \in 1..Len(rows) :
                 rows[i][1] /\ \A j \in 1..(i - 1) : ~rows[j][1]
    IN  rows[k][2]

\* C1: Release.status follows the first-match-wins table on every tuple
\* (finished, download running, readyToWrite, writer running, no error, writer
\* status), and every read of the same tuple gives that same result.
C1_StatusTable ==
    \A i \in 1..Len(st_out) : st_out[i] = FirstMatch(st_in)

\* C1 witness: a tuple with a running download and errors, read twice.
C1_Witness ==
    /\ Len(st_out) = 2
    /\ st_in[2] /\ ~st_in[5]
    /\ st_out[1] = "Downloading"

\* C2: once cancel() has hit a started fetch and that fetch has run out (the
\* thread has ended and none of its signals is queued), the job is Idle.
C2_CancelConverges ==
    (cancelled /\ grabber.pc = "idle" /\ pending = <<>>) => Idle(download)

C4_StartGuard ==
    [][(Release_get /\ Len(download.path) > 0) =>
          /\ UNCHANGED <<download, grabber, pending, iso>>
          /\ emitted' = <<>>]_vars

\* C4 witness: get() was called with a path set while the thread was not running.
C4_Witness ==
    /\ lastOp[1] = "get"
    /\ Len(download.path) > 0
    /\ grabber.pc = "idle"

\* C5: cancel() on an Idle job changes none of running, progress, maximum and
\* path, and emits no signal.
C5_CancelIdleNoop ==
    [][(Download_cancel /\ Idle(download)) =>
          /\ download' = download
          /\ emitted' = <<>>]_vars

\* C6: when the queued downloadFinished(p) is handled, the path is p, the
\* release is ready to write, the download is not running, and with no error
\* and an idle, unfinished writer the status is "Ready to write".
C6_FetchSuccess ==
    [][Deliver_childFinished =>
          /\ download'.path = Head(pending)[2]
          /\ readyToWrite(download')
          /\ ~download'.running
          /\ (release'.error = <<>> /\ ~writer'.running /\ ~writer'.finished)
                 => Release_status(download', writer', release') = "Ready to write"]_vars

\* C6 witness: the fetched file is the release's path, nothing is left of the
\* fetch, and the status is "Ready to write".
C6_Witness ==
    /\ download.path = FetchedIso
    /\ ~download.running
    /\ grabber.pc = "idle" /\ pending = <<>>
    /\ Status = "Ready to write"

\* C7: when the queued downloadError(r) is handled, the tracker is back at its
\* idle values, the path is empty, r is in the release's error list (appended
\* if it was not there), and the status is "Error".
C7_FetchFailure ==
    [][Deliver_childError =>
          LET r == PyStr(Head(pending)[2])
          IN  /\ Idle(download')
              /\ Count(r, release'.error) = 1
              /\ (Count(r, release.error) = 0 => release'.error = Append(release.error, r))
              /\ Release_status(download', writer', release') = "Error"]_vars

\* C7 witness: a fetch reason is in the error list of a release that was never
\* written, the job is idle and the status is "Error".
C7_Witness ==
    /\ \E r \in FetchReasons : Count(PyStr(r), release.error) = 1
    /\ writer.status = ""
    /\ Idle(download)
    /\ Status = "Error"


\* The writer thread has run to its end after the write primitive returned
\* normally, and neither write() nor cancel() was called since that return.
WriteSucceeded == outcome.k = "ok" /\ worker.pc = "idle"

\* The same, after the write primitive raised an exception carrying outcome.m.
WriteFailed == outcome.k = "failed" /\ worker.pc = "idle"

\* C8, as the claim states it (for a write() on a release that was ready to
\* write): after a normal return of the write primitive the writer is finished,
\* not running, its status is "Finished", and so is the release's status.
C8_AsClaimed ==
    (WriteSucceeded /\ outcome.ready) =>
        /\ writer.finished /\ ~writer.running
        /\ writer.status = "Finished"
        /\ Status = "Finished"

\* C8, amended: after a normal return of the write primitive the writer is
\* finished, not running, and its status is "Finished!"; the release's status
\* is "Finished!" too when no download is running and the error list is empty.
C8_WriteSuccess ==
    WriteSucceeded =>
        /\ writer.finished /\ ~writer.running
        /\ writer.status = "Finished!"
        /\ (~download.running /\ release.error = <<>>) => Status = "Finished!"

\* C8 witness: a write has succeeded and the release's status shows it.
C8_Witness == WriteSucceeded /\ outcome.ready /\ Status = "Finished!"

\* No value occurs twice in the list.
NoDuplicates(list) == \A i, j \in 1..Len(list) : list[i] = list[j] => i = j

C10_WriteNotReady ==
    [][(Release_write /\ ~readyToWrite(download)) => UNCHANGED <<writer, worker>>]_vars

\* A reconciliation pass that went as far as replacing the drive list.
Committed == lastPass'.op = "reconcile" /\ lastPass'.how = "committed"

\* C11: in every reachable state the selected drive index is -1 or a valid
\* index into the drive list (0 <= index < number of drives).
C11_SelectedIndexValid ==
    currentDrive = -1 \/ (0 <= currentDrive /\ currentDrive < Len(usbDrives))

\* C12: selecting, in a non-empty inventory, any index at or above the number
\* of drives leaves the selection at index 0.
C12_HighClampsToZero ==
    [][\A value \in SelectInputs :
          (/\ LiveUSBData_selectDrive(value)
           /\ Len(usbDrives) > 0
           /\ value >= Len(usbDrives)) => currentDrive' = 0]_vars

\* C13: a reconciliation pass whose candidate drives are, device for device
\* with the same sizes and labels, the listed ones (none included) changes
\* neither the drive list, the selected index, the pending-restore reference,
\* the backend's target drive nor any release's flags, and emits nothing.
C13_IdenticalListNoChange ==
    [][\A reported \in Reports :
          (USBDeviceCallback(reported) /\ SameDrives(reported))
          => (/\ UNCHANGED <<usbDrives, currentDrive, driveToRestore, liveDrive,
                             releaseData>>
              /\ emitted' = <<>>)]_vars

\* C14: a reconciliation pass that runs while the pending-restore drive is being
\* restored leaves the drive list, the selected index and the pending-restore
\* reference as they were and emits nothing, whatever drives are reported.
C14_RestoreDefersPass ==
    [][\A reported \in Reports :
          (RestoreInProgress /\ USBDeviceCallback(reported))
          => (/\ UNCHANGED <<usbDrives, currentDrive, driveToRestore>>
              /\ emitted' = <<>>)]_vars

\* A pass met a restore in progress while the backend reported other drives
\* than the listed ones.
C14_Witness ==
    /\ lastPass = [op |-> "reconcile", how |-> "restoring", differs |-> TRUE]
    /\ RestoreInProgress

\* The index in list (from 0) of the drive with the device, or -1.
IndexOfDevice(list, device) ==
    IF \E i \in 1..Len(list) : list[i].device = device
    THEN (CHOOSE i \in 1..Len(list) : list[i].device = device) - 1
    ELSE -1

\* C19: after a pass that commits a changed drive list, the selected index is
\* the position in the new list of the device that was selected before the
\* pass, and -1 when that device is gone or when no drive was selected before.
C19_SelectionFollowsDevice ==
    [][\A reported \in Reports :
          (USBDeviceCallback(reported) /\ Committed /\ ~SameDrives(reported))
          => /\ currentDrive = -1 => currentDrive' = -1
             /\ (0 <= currentDrive /\ currentDrive < Len(usbDrives))
                => currentDrive' =
                      IndexOfDevice(reported, usbDrives[currentDrive + 1].drive.device)]_vars

\* C20: a pass that commits a changed drive list emits the drive-list, the
\* selection and the pending-restore notifications, in that order, once each.
C20_OneNotificationEach ==
    [][\A reported \in Reports :
          (USBDeviceCallback(reported) /\ Committed /\ ~SameDrives(reported))
          => emitted' = <<"usbDrivesChanged", "currentDriveChanged",
                          "driveToRestoreChanged">>]_vars

\* The release fillReleases reads as selected: self.releaseData[self.currentIndex]
SelectedRunning ==
    /\ Len(releaseData) > 0
    /\ ValidIndex(currentIndex, Len(releaseData))
    /\ \/ releaseData[PyPos(currentIndex, Len(releaseData))].dlRunning
       \/ releaseData[PyPos(currentIndex, Len(releaseData))].wRunning

\* C15: a refresh of the catalog while the selected release has a running
\* download or a running write changes nothing: not the list of releases, not a
\* job of any release, not the selected release index.
C15_RefreshDeferred ==
    [][(LiveUSBData_fillReleases /\ SelectedRunning)
       => UNCHANGED <<releaseData, currentIndex, releases, proxy, view>>]_vars

\* A refresh found a job of the selected release running, with a catalog to list.
C15_Witness ==
    /\ lastPass = [op |-> "fill", how |-> "running", differs |-> FALSE]
    /\ SelectedRunning
    /\ Len(releases) > 0

\* The filter's two predicates, as the claim words them.
ArchPredicate(row, archFilter) ==
    \/ row.source = "Local"
    \/ row.source = ""
    \/ \E k \in DOMAIN archFilter : archFilter[k] \in row.variants

NamePredicate(row, nameFilter) ==
    \/ nameFilter = <<>>
    \/ /\ row.source # ""
       /\ \/ Contains(Lower(nameFilter), Lower(row.name))
          \/ Contains(Lower(nameFilter), Lower(row.summary))

\* C16: the filter accepts a row exactly when the architecture predicate
\* (local, or separator, or a variant for the selected architecture) and the
\* name predicate (no name filter, or not a separator and the name or the
\* summary contains the filter, whatever the case of the letters) both hold.
C16_FilterPredicates ==
    \A k \in 1..Len(row_out) :
        row_out[k] = (ArchPredicate(row_in[1], row_in[2])
                      /\ NamePredicate(row_in[1], row_in[3]))

\* A row was accepted on a name that matches only when case is ignored.
C16_Witness ==
    /\ Len(row_out) = MaxReads
    /\ row_out[1]
    /\ row_in[3] # <<>>
    /\ ~Contains(row_in[3], row_in[1].name)
    /\ ~Contains(row_in[3], row_in[1].summary)

\* C17: a change of the architecture filter or of the name filter leaves the
\* list of releases as it was, with every job of every release, also of the
\* releases that leave the view.
C17_FilterKeepsJobs ==
    [][(\/ \E value \in NameInputs : Proxy_setNameFilter(value)
        \/ \E value \in ArchInputs : Proxy_setArchFilter(value))
       => UNCHANGED <<releaseData, download, writer, grabber, worker>>]_vars

\* A filter change took a release with a running job out of the view.
C17_Witness ==
    /\ lastPass.op \in { "nameFilter", "archFilter" }
    /\ lastPass.differs
    /\ \E i \in DOMAIN releaseData :
          /\ releaseData[i].dlRunning \/ releaseData[i].wRunning
          /\ \A k \in DOMAIN view : view[k] # i - 1

\* C18: write() clears the three message lists, lists the one fixed notice and
\* starts the writer: right after it the info list holds that notice alone,
\* the warning and error lists are empty (whatever an earlier write or a failed
\* download left there) and the writer is running.
C18_WriteClearsMessages ==
    [][Release_write
       => /\ release' = [info |-> <<RestoreInfo>>, warning |-> <<>>, error |-> <<>>]
          /\ writer'.running
          /\ writer'.status = "Writing"]_vars

\* write() found an error listed, and it is gone.
C18_Witness ==
    /\ lastOp[1] = "write"
    /\ lastOp[2] > 0
    /\ release.error = <<>>
    /\ release.info = <<RestoreInfo>>

\* C21: selecting a drive index that differs from the selected one and lies
\* in the list leaves no release with its writer marked finished.
C21_SelectionResetsFinished ==
    [][\A value \in SelectInputs :
          (/\ LiveUSBData_selectDrive(value)
           /\ currentDrive' # currentDrive
           /\ currentDrive' \in 0..(Len(usbDrives) - 1))
          => \A i \in DOMAIN releaseData' : ~releaseData'[i].wFinished]_vars

\* C27: the backend's target is cleared while no drive is listed, is the
\* device of the selected drive while the selected index lies in the list,
\* and is no drive other than the first while the selected index is -1.
C27_TargetAgrees ==
    /\ Len(usbDrives) = 0 => liveDrive = NoTarget
    /\ currentDrive \in 0..(Len(usbDrives) - 1)
          => /\ Truthy(liveDrive)
             /\ liveDrive.v = usbDrives[currentDrive + 1].drive.device
    /\ (currentDrive = -1 /\ Len(usbDrives) > 0 /\ Truthy(liveDrive))
          => liveDrive.v = usbDrives[1].drive.device

\* Whether a signal is among those a step emitted.
Occurs(signal, signals) == \E i \in 1..Len(signals) : signals[i] = signal

\* The handlers of the download that set a field and emit its signal in one
\* step: cancel, the completion and error handlers, update, and the two halves
\* of end.
DownloadMutator ==
    \/ Download_cancel
    \/ Deliver_childFinished
    \/ Deliver_childError
    \/ \E a \in Amounts : Thread_update(a)
    \/ Download_end1
    \/ Download_end2

\* C22: a mutator of the download emits the change signal of running, of
\* current or of maximum only in a step that changes that field.
C22_NotifyOnlyOnChange ==
    [][DownloadMutator =>
          /\ Occurs("download.runningChanged", emitted')
                => download'.running # download.running
          /\ Occurs("download.currentChanged", emitted')
                => download'.current # download.current
          /\ Occurs("download.maximumChanged", emitted')
                => download'.maximum # download.maximum]_vars

\* A refresh that was not skipped and ran to its end.
Refreshed == LiveUSBData_fillReleases /\ lastPass'.how = "filled"

\* C23: after a refresh that was not skipped the catalog holds one entry for
\* each descriptor of the release source, in the source's order, each with
\* its position as its index.
C23_RefreshReplaces ==
    [][Refreshed =>
          /\ Len(releaseData') = Len(releases)
          /\ \A i \in DOMAIN releaseData' :
                /\ releaseData'[i].data = releases[i]
                /\ releaseData'[i].index = i - 1]_vars

\* Whether a job of the i-th listed release is running.
JobRunning(i) == releaseData[i].dlRunning \/ releaseData[i].wRunning

\* C24: whatever a refresh does, every entry with a running download or
\* write is afterwards still listed at its place, with its jobs as they were.
C24_RefreshKeepsRunning ==
    [][LiveUSBData_fillReleases =>
          \A i \in DOMAIN releaseData :
              JobRunning(i) =>
                  /\ i \in DOMAIN releaseData'
                  /\ releaseData'[i] = releaseData[i]]_vars

\* A refresh ran to its end while a release other than the selected one had a
\* running job.
C24_Witness ==
    /\ lastPass.op = "fill"
    /\ lastPass.how = "filled"
    /\ ValidIndex(currentIndex, Len(releaseData))
    /\ \E i \in DOMAIN releaseData :
          /\ JobRunning(i)
          /\ i # PyPos(currentIndex, Len(releaseData))

\* The number of listed releases the architecture and name predicates accept.
Matching ==
    Cardinality({ i \in DOMAIN releaseData : filterAcceptsRow(releaseData[i].data, proxy) })

\* C25: the row count the view reports is the number of matching releases,
\* cut to the front page's rows while the front page is shown and more than
\* that many match; it never exceeds the number of matching releases.
C25_RowCountMatches ==
    Proxy_rowCount(releaseData, proxy) =
        IF proxy.frontPage /\ Matching > FrontPageRows THEN FrontPageRows ELSE Matching

\* C26: when write() on a release that has a path starts its writer thread,
\* the image the backend holds, which the write primitive is about to write,
\* is that release's own path.
C26_WritesOwnImage ==
    [][\A i \in 1..MaxReleases :
          (Entry_startWrite(i) /\ releaseData[i].path # <<>>)
          => iso = releaseData[i].path]_vars

\* A device event was put off because of a restore, and the drives it
\* reported are not the listed ones.
Deferred ==
    /\ lastPass.op = "reconcile"
    /\ lastPass.how = "restoring"
    /\ lastPass.differs

\* C28: a device event put off because of a restore is not lost: the listed
\* drives come to be those the latest event reported (or the program has
\* ended on an exception).
C28_DeferredNotLost == Deferred ~> (~unapplied \/ crashed)

====
